---- MODULE Spec2Model ----
(***************************************************************************)
(* Quoridor (src/Quoridor.py): the Board, its Tiles, pawn moves and fence  *)
(* placement with the fair-play search, and the QuoridorGame that keeps    *)
(* the turn, the winner and the fence counts over a Board.                 *)
(*                                                                         *)
(* A coordinate is <<x, y>> = <<column, row>>, as the source's tuples      *)
(* (x-coord, y-coord): Python's pos[0] is pos[1] here, pos[1] is pos[2].   *)
(* The grid is indexed [row][col] as self._board is. A Tile is identified   *)
(* by its board coordinate (set once in Board.__init__ and never changed), *)
(* so a link holds the coordinate of the Tile it refers to, or None.       *)
(***************************************************************************)
EXTENDS Integers, Sequences, FiniteSets

VARIABLES
    player_1,   \* Board._player_1
    player_2,   \* Board._player_2
    has_pawn,   \* Tile._has_pawn of every Tile
    links,      \* Tile._north/_south/_east/_west of every Tile
    player_turn,        \* QuoridorGame._player_turn
    game_over,          \* QuoridorGame._game_over
    player_1_fences,    \* QuoridorGame._player_1_fences
    player_2_fences     \* QuoridorGame._player_2_fences

board_vars == <<player_1, player_2, has_pawn, links>>
game_vars == <<player_turn, game_over, player_1_fences, player_2_fences>>
vars == <<board_vars, game_vars>>

-----------------------------------------------------------------------------
(* Program constants *)

\* range(0, 9): the board is 9 x 9, indices 0..8
LastIndex == 8

\* the fence pieces each player begins with
StartFences == 10

\* Python's None (a closed direction)
None == <<"None">>

\* the three values place_fence returns, and the two of move_pawn
True == "True"
False == "False"
BreaksFairPlay == "breaks the fair play rule"

Coords == (0..LastIndex) \X (0..LastIndex)

Directions == {"north", "south", "east", "west"}

Abs(n) == IF n < 0 THEN -n ELSE n

-----------------------------------------------------------------------------
(* Tile *)

\* the Tile a coordinate names is self._board[y][x] (lines 216, 225, 257,
\* 317); its link in a direction, Tile._north, _south, _east or _west
get_link(L, tile, direction) == L[tile[2]][tile[1]][direction]

\* Tile.get_has_pawn, of the Tile at a coordinate
get_has_pawn(H, tile) == H[tile[2]][tile[1]]

\* Tile.get_direction: the sign of the x movement is looked at first
get_direction(L, tile, movement) ==
    IF movement[1] < 0 THEN get_link(L, tile, "west")
    ELSE IF movement[1] > 0 THEN get_link(L, tile, "east")
    ELSE IF movement[2] < 0 THEN get_link(L, tile, "north")
    ELSE IF movement[2] > 0 THEN get_link(L, tile, "south")
    ELSE None

\* Tile.get_valid_directions: the open links, in the order north, south, east, west
get_valid_directions(L, tile) ==
    (IF get_link(L, tile, "north") # None THEN <<get_link(L, tile, "north")>> ELSE << >>)
    \o (IF get_link(L, tile, "south") # None THEN <<get_link(L, tile, "south")>> ELSE << >>)
    \o (IF get_link(L, tile, "east") # None THEN <<get_link(L, tile, "east")>> ELSE << >>)
    \o (IF get_link(L, tile, "west") # None THEN <<get_link(L, tile, "west")>> ELSE << >>)

\* Tile.close_direction
close_direction(L, tile, direction) ==
    [L EXCEPT ![tile[2]][tile[1]][direction] = None]

\* Tile.open_direction
open_direction(L, tile, direction, other) ==
    [L EXCEPT ![tile[2]][tile[1]][direction] = other]

-----------------------------------------------------------------------------
(* Board *)

\* Board.__init__, lines 121-131: the links opened between neighbouring
\* Tiles, for the Tile self._board[row][col]
InitLinks ==
    [row \in 0..LastIndex |-> [col \in 0..LastIndex |->
        [d \in Directions |->
            CASE d = "west"  -> IF col # 0 THEN <<col - 1, row>> ELSE None
              [] d = "east"  -> IF col # 8 THEN <<col + 1, row>> ELSE None
              [] d = "north" -> IF row # 0 THEN <<col, row - 1>> ELSE None
              [] d = "south" -> IF row # 8 THEN <<col, row + 1>> ELSE None]]]

\* Board.__init__, lines 133-134: the pawns set on the board
InitHasPawn ==
    [row \in 0..LastIndex |-> [col \in 0..LastIndex |->
        IF row = 0 /\ col = 4 THEN 1 ELSE IF row = 8 /\ col = 4 THEN 2 ELSE 0]]

\* player_in_goal with the goal rows of the two players exchanged
player_in_goal_rows_exchanged(b, player) ==
    IF player = 1 /\ b.player_1[2] = 0 THEN TRUE
    ELSE IF player = 2 /\ b.player_2[2] = 8 THEN TRUE
    ELSE FALSE

\* Board.player_in_goal
player_in_goal(b, player) ==
    IF player = 1 /\ b.player_1[2] = 8 THEN TRUE
    ELSE IF player = 2 /\ b.player_2[2] = 0 THEN TRUE
    ELSE FALSE

\* _can_jump_pawn as it would be if line 163 tested abs(col_dir) == 2 and
\* abs(row_dir) == 0 only: no jump to the north or to the south
_can_jump_pawn_along_row_only(L, H, current_tile, row_dir, col_dir) ==
    IF Abs(col_dir) = 2 /\ Abs(row_dir) = 0
    THEN LET next_tile == get_direction(L, current_tile, <<col_dir, row_dir>>)
         IN  IF next_tile # None /\ get_has_pawn(H, next_tile) # 0
             THEN get_direction(L, next_tile, <<col_dir, row_dir>>) # None
             ELSE FALSE
    ELSE FALSE

\* _can_jump_pawn as it would be without line 166: a fence behind the pawn
\* in the way no longer stops the jump
_can_jump_pawn_over_fence(L, H, current_tile, row_dir, col_dir) ==
    IF (Abs(row_dir) = 2 \/ Abs(col_dir) = 2) /\ (Abs(row_dir) = 0 \/ Abs(col_dir) = 0)
    THEN LET next_tile == get_direction(L, current_tile, <<col_dir, row_dir>>)
         IN  next_tile # None /\ get_has_pawn(H, next_tile) # 0
    ELSE FALSE

\* Board._can_jump_pawn
_can_jump_pawn(L, H, current_tile, row_dir, col_dir) ==
    IF (Abs(row_dir) = 2 \/ Abs(col_dir) = 2) /\ (Abs(row_dir) = 0 \/ Abs(col_dir) = 0)
    THEN LET next_tile == get_direction(L, current_tile, <<col_dir, row_dir>>)
         IN  IF next_tile # None /\ get_has_pawn(H, next_tile) # 0
             THEN get_direction(L, next_tile, <<col_dir, row_dir>>) # None
             ELSE FALSE
    ELSE FALSE

\* _can_move_diagonally as it would be without the wall-behind tests of
\* lines 183 and 188
_can_move_diagonally_no_wall(L, H, current_tile, row_dir, col_dir) ==
    IF Abs(row_dir) = 1 /\ Abs(col_dir) = 1
    THEN LET change_col == get_direction(L, current_tile, <<col_dir, 0>>)
             change_row == get_direction(L, current_tile, <<0, row_dir>>)
         IN  IF change_col # None /\ get_has_pawn(H, change_col) # 0
             THEN get_direction(L, change_col, <<0, row_dir>>) # None
             ELSE IF change_row # None /\ get_has_pawn(H, change_row) # 0
             THEN get_direction(L, change_row, <<col_dir, 0>>) # None
             ELSE FALSE
    ELSE FALSE

\* Board._can_move_diagonally
_can_move_diagonally(L, H, current_tile, row_dir, col_dir) ==
    IF Abs(row_dir) = 1 /\ Abs(col_dir) = 1
    THEN LET change_col == get_direction(L, current_tile, <<col_dir, 0>>)
             change_row == get_direction(L, current_tile, <<0, row_dir>>)
         IN  IF change_col # None /\ get_has_pawn(H, change_col) # 0
             THEN get_direction(L, change_col, <<col_dir, 0>>) = None
                  /\ get_direction(L, change_col, <<0, row_dir>>) # None
             ELSE IF change_row # None /\ get_has_pawn(H, change_row) # 0
             THEN get_direction(L, change_row, <<0, row_dir>>) = None
                  /\ get_direction(L, change_row, <<col_dir, 0>>) # None
             ELSE FALSE
    ELSE FALSE

\* _can_move_regularly as it would be without the wall test of line 202
_can_move_regularly_through_wall(L, current_tile, row_dir, col_dir) ==
    (Abs(row_dir) = 1 \/ Abs(col_dir) = 1) /\ (Abs(row_dir) = 0 \/ Abs(col_dir) = 0)

\* Board._can_move_regularly
_can_move_regularly(L, current_tile, row_dir, col_dir) ==
    IF (Abs(row_dir) = 1 \/ Abs(col_dir) = 1) /\ (Abs(row_dir) = 0 \/ Abs(col_dir) = 0)
    THEN get_direction(L, current_tile, <<col_dir, row_dir>>) # None
    ELSE FALSE

\* Tile.set_has_pawn
set_has_pawn(H, tile, pawn) ==
    [H EXCEPT ![tile[2]][tile[1]] = pawn]

\* CommitMove as it would be without the test of line 236: both stored
\* positions are set to new_pos
CommitMoveBothPositions(b, player, current_pos, new_pos) ==
    [b EXCEPT
        !.has_pawn = set_has_pawn(set_has_pawn(b.has_pawn, current_pos, 0), new_pos, player),
        !.player_1 = new_pos,
        !.player_2 = new_pos]

\* CommitMove as it would be without line 234: the Tile left keeps its marker
CommitMoveKeepsMarker(b, player, current_pos, new_pos) ==
    [b EXCEPT
        !.has_pawn = set_has_pawn(b.has_pawn, new_pos, player),
        !.player_1 = IF player = 1 THEN new_pos ELSE b.player_1,
        !.player_2 = IF player = 1 THEN b.player_2 ELSE new_pos]

\* Board.move_pawn, lines 234-239: the pawn leaves current_pos for new_pos
CommitMove(b, player, current_pos, new_pos) ==
    [b EXCEPT
        !.has_pawn = set_has_pawn(set_has_pawn(b.has_pawn, current_pos, 0), new_pos, player),
        !.player_1 = IF player = 1 THEN new_pos ELSE b.player_1,
        !.player_2 = IF player = 1 THEN b.player_2 ELSE new_pos]

\* TargetRefused as it would be without lines 217-218: a Tile holding a pawn
\* is not refused
TargetRefusedOffBoardOnly(b, new_pos) ==
    ~(0 <= new_pos[1] /\ new_pos[1] <= 8) \/ ~(0 <= new_pos[2] /\ new_pos[2] <= 8)

\* Board.move_pawn, lines 214-218: the target is off the board or holds a pawn
TargetRefused(b, new_pos) ==
    IF ~(0 <= new_pos[1] /\ new_pos[1] <= 8) \/ ~(0 <= new_pos[2] /\ new_pos[2] <= 8)
    THEN TRUE
    ELSE get_has_pawn(b.has_pawn, new_pos) # 0

\* Board.move_pawn on the board b = [player_1, player_2, has_pawn, links]:
\* the value returned and the board it leaves
move_pawn(b, player, new_pos) ==
    IF TargetRefused(b, new_pos)
    THEN [ret |-> False, board |-> b]
    ELSE LET current_pos == IF player = 1 THEN b.player_1 ELSE b.player_2
             row_dir == new_pos[2] - current_pos[2]
             col_dir == new_pos[1] - current_pos[1]
             moving_regularly == _can_move_regularly(b.links, current_pos, row_dir, col_dir)
             jumping_pawn == _can_jump_pawn(b.links, b.has_pawn, current_pos, row_dir, col_dir)
             moving_diagonally ==
                 _can_move_diagonally(b.links, b.has_pawn, current_pos, row_dir, col_dir)
         IN  IF moving_regularly \/ jumping_pawn \/ moving_diagonally
             THEN [ret |-> True, board |-> CommitMove(b, player, current_pos, new_pos)]
             ELSE [ret |-> False, board |-> b]

\* AddNewPaths as it would be without line 269: the Tiles appended to paths
\* are not added to paths_taken
RECURSIVE AddNewPathsUnmarked(_, _, _)
AddNewPathsUnmarked(new_paths, paths, paths_taken) ==
    IF new_paths = << >>
    THEN [paths |-> paths, paths_taken |-> paths_taken]
    ELSE LET new_path == Head(new_paths)
         IN  IF <<"tile", new_path>> \notin paths_taken
             THEN AddNewPathsUnmarked(Tail(new_paths), Append(paths, new_path), paths_taken)
             ELSE AddNewPathsUnmarked(Tail(new_paths), paths, paths_taken)

\* Board._fair_play, lines 266-269: the Tiles of new_paths not yet in
\* paths_taken are appended to paths and added to paths_taken, one by one
RECURSIVE AddNewPaths(_, _, _)
AddNewPaths(new_paths, paths, paths_taken) ==
    IF new_paths = << >>
    THEN [paths |-> paths, paths_taken |-> paths_taken]
    ELSE LET new_path == Head(new_paths)
         IN  IF <<"tile", new_path>> \notin paths_taken
             THEN AddNewPaths(Tail(new_paths), Append(paths, new_path),
                              paths_taken \cup {<<"tile", new_path>>})
             ELSE AddNewPaths(Tail(new_paths), paths, paths_taken)

\* Board._fair_play, lines 262-271: the while loop
RECURSIVE FairPlayLoop(_, _, _, _)
FairPlayLoop(L, paths, paths_taken, destination) ==
    IF Len(paths) = 0
    THEN FALSE
    ELSE IF Head(paths)[2] = destination
    THEN TRUE
    ELSE LET n == AddNewPaths(get_valid_directions(L, Head(paths)), paths, paths_taken)
         IN  FairPlayLoop(L, Tail(n.paths), n.paths_taken, destination)

\* the Tiles of the board: 9 rows of 9
TileCount == (LastIndex + 1) * (LastIndex + 1)

\* Board._fair_play, lines 262-271: the while loop again, recording in
\* examined each Tile taken as paths[0]. It is followed for TileCount + 1
\* iterations at most, so a loop that would go on is seen by its length
RECURSIVE FairPlayExamined(_, _, _, _, _)
FairPlayExamined(L, paths, paths_taken, destination, examined) ==
    IF Len(paths) = 0 \/ Len(examined) > TileCount
    THEN examined
    ELSE IF Head(paths)[2] = destination
    THEN Append(examined, Head(paths))
    ELSE LET n == AddNewPaths(get_valid_directions(L, Head(paths)), paths, paths_taken)
         IN  FairPlayExamined(L, Tail(n.paths), n.paths_taken, destination,
                              Append(examined, Head(paths)))

\* Board._fair_play: the Tiles one run examines, in order
_fair_play_examined(b, player) ==
    LET destination == IF player = 1 THEN 8 ELSE 0
        position == IF player = 1 THEN b.player_1 ELSE b.player_2
        paths == get_valid_directions(b.links, position)
        paths_taken == {<<"coord", position>>}
                       \cup {<<"tile", paths[i]>> : i \in 1..Len(paths)}
    IN  FairPlayExamined(b.links, paths, paths_taken, destination, << >>)

\* _fair_play as it would be if every search succeeded
_fair_play_always(b, player) == TRUE

\* Board._fair_play: paths_taken starts as the set holding the position tuple,
\* which no Tile equals, and the Tiles first put on paths
_fair_play(b, player) ==
    LET destination == IF player = 1 THEN 8 ELSE 0
        position == IF player = 1 THEN b.player_1 ELSE b.player_2
        paths == get_valid_directions(b.links, position)
        paths_taken == {<<"coord", position>>}
                       \cup {<<"tile", paths[i]>> : i \in 1..Len(paths)}
    IN  FairPlayLoop(b.links, paths, paths_taken, destination)

\* TentativeClose as it would be without lines 286 and 297: the border
\* Tile's side stays open
TentativeCloseOneSide(b, tile, border_tile, side, other_side) ==
    [b EXCEPT !.links = close_direction(b.links, tile, side)]

\* Board._place_fence_in_direction, lines 285-286 and 296-297: both sides
\* of the link are closed
TentativeClose(b, tile, border_tile, side, other_side) ==
    [b EXCEPT !.links =
        close_direction(close_direction(b.links, tile, side), border_tile, other_side)]

\* Reopen as it would be if the rollback put the Tile and its side of the
\* border Tile back as Board.__init__ left them
ReopenWholeTile(b, tile, border_tile, side, other_side) ==
    [b EXCEPT !.links =
        open_direction([b.links EXCEPT ![tile[2]][tile[1]] = InitLinks[tile[2]][tile[1]]],
                       border_tile, other_side, tile)]

\* Reopen as it would be without lines 289-290 and 300-301: the refused
\* fence stays
ReopenNothing(b, tile, border_tile, side, other_side) == b

\* Board._place_fence_in_direction, lines 289-290 and 300-301: both sides
\* of the link are opened again
Reopen(b, tile, border_tile, side, other_side) ==
    [b EXCEPT !.links =
        open_direction(open_direction(b.links, tile, side, border_tile),
                       border_tile, other_side, tile)]

\* Board._place_fence_in_direction, lines 285-291 and 296-302: close, search
\* for player 1 and then for player 2, reopen when a search fails
CloseAndCheck(b, tile, border_tile, side, other_side) ==
    LET closed == TentativeClose(b, tile, border_tile, side, other_side)
    IN  IF ~_fair_play(closed, 1) \/ ~_fair_play(closed, 2)
        THEN [ret |-> BreaksFairPlay,
              board |-> Reopen(closed, tile, border_tile, side, other_side)]
        ELSE [ret |-> True, board |-> closed]

\* _place_fence_in_direction as it would be with the "h" branch closing the
\* sides the "v" branch closes
_place_fence_in_direction_h_as_v(b, direction, tile) ==
    IF direction = "v"
    THEN LET border_tile == get_direction(b.links, tile, <<-1, 0>>)
         IN  IF border_tile = None
             THEN [ret |-> False, board |-> b]
             ELSE CloseAndCheck(b, tile, border_tile, "west", "east")
    ELSE IF direction = "h"
    THEN LET border_tile == get_direction(b.links, tile, <<0, -1>>)
         IN  IF border_tile = None
             THEN [ret |-> False, board |-> b]
             ELSE CloseAndCheck(b, tile, border_tile, "west", "east")
    ELSE [ret |-> True, board |-> b]

\* Board._place_fence_in_direction
_place_fence_in_direction(b, direction, tile) ==
    IF direction = "v"
    THEN LET border_tile == get_direction(b.links, tile, <<-1, 0>>)
         IN  IF border_tile = None
             THEN [ret |-> False, board |-> b]
             ELSE CloseAndCheck(b, tile, border_tile, "west", "east")
    ELSE IF direction = "h"
    THEN LET border_tile == get_direction(b.links, tile, <<0, -1>>)
         IN  IF border_tile = None
             THEN [ret |-> False, board |-> b]
             ELSE CloseAndCheck(b, tile, border_tile, "north", "south")
    ELSE [ret |-> True, board |-> b]

\* place_fence as it would be without the direction test of lines 312-313
place_fence_any_direction(b, direction, position) ==
    IF ~(0 <= position[1] /\ position[1] <= 8)
       \/ ~(0 <= position[2] /\ position[2] <= 8)
    THEN [ret |-> False, board |-> b]
    ELSE _place_fence_in_direction(b, direction, position)

\* Board.place_fence
place_fence(b, direction, position) ==
    IF ~(direction = "v" \/ direction = "h")
    THEN [ret |-> False, board |-> b]
    ELSE IF ~(0 <= position[1] /\ position[1] <= 8)
            \/ ~(0 <= position[2] /\ position[2] <= 8)
    THEN [ret |-> False, board |-> b]
    ELSE _place_fence_in_direction(b, direction, position)

-----------------------------------------------------------------------------
(* QuoridorGame: a game g = [board, player_turn, game_over,                *)
(* player_1_fences, player_2_fences]; each method gives the value returned *)
(* and the game it leaves                                                  *)

\* QuoridorGame.move_pawn as it would be without the win test of lines
\* 38-39: game_over is never set
QuoridorGame_move_pawn_no_win_test(g, player, new_pos) ==
    IF g.game_over # 0
    THEN [ret |-> False, game |-> g]
    ELSE IF player # g.player_turn
    THEN [ret |-> False, game |-> g]
    ELSE LET moved == move_pawn(g.board, player, new_pos)
         IN  IF moved.ret = True
             THEN [ret |-> True,
                   game |-> [g EXCEPT
                       !.board = moved.board,
                       !.player_turn = IF player = 1 THEN 2 ELSE 1]]
             ELSE [ret |-> False, game |-> [g EXCEPT !.board = moved.board]]

\* QuoridorGame.move_pawn as it would be without the turn test of lines 33-34
QuoridorGame_move_pawn_out_of_turn(g, player, new_pos) ==
    IF g.game_over # 0
    THEN [ret |-> False, game |-> g]
    ELSE LET moved == move_pawn(g.board, player, new_pos)
         IN  IF moved.ret = True
             THEN [ret |-> True,
                   game |-> [g EXCEPT
                       !.board = moved.board,
                       !.game_over = IF player_in_goal(moved.board, player)
                                     THEN player ELSE g.game_over,
                       !.player_turn = IF player = 1 THEN 2 ELSE 1]]
             ELSE [ret |-> False, game |-> [g EXCEPT !.board = moved.board]]

\* QuoridorGame.move_pawn
QuoridorGame_move_pawn(g, player, new_pos) ==
    IF g.game_over # 0
    THEN [ret |-> False, game |-> g]
    ELSE IF player # g.player_turn
    THEN [ret |-> False, game |-> g]
    ELSE LET moved == move_pawn(g.board, player, new_pos)
         IN  IF moved.ret = True
             THEN [ret |-> True,
                   game |-> [g EXCEPT
                       !.board = moved.board,
                       !.game_over = IF player_in_goal(moved.board, player)
                                     THEN player ELSE g.game_over,
                       !.player_turn = IF player = 1 THEN 2 ELSE 1]]
             ELSE [ret |-> False, game |-> [g EXCEPT !.board = moved.board]]

\* AfterBoardFence as it would be without lines 72-73: the refusal string,
\* which counts as true, takes the branch of a fence placed
AfterBoardFenceTruthy(g, player, piece_placed) ==
    IF piece_placed.ret # False
    THEN IF player = 1
         THEN [ret |-> True,
               game |-> [g EXCEPT !.board = piece_placed.board,
                                  !.player_turn = 2,
                                  !.player_1_fences = g.player_1_fences - 1]]
         ELSE [ret |-> True,
               game |-> [g EXCEPT !.board = piece_placed.board,
                                  !.player_turn = 1,
                                  !.player_2_fences = g.player_2_fences - 1]]
    ELSE [ret |-> False, game |-> [g EXCEPT !.board = piece_placed.board]]

\* QuoridorGame.place_fence, lines 70-82: what follows the Board's answer
\* piece_placed = [ret, board]
AfterBoardFence(g, player, piece_placed) ==
    IF piece_placed.ret = BreaksFairPlay
    THEN [ret |-> BreaksFairPlay, game |-> [g EXCEPT !.board = piece_placed.board]]
    ELSE IF piece_placed.ret = True
    THEN IF player = 1
         THEN [ret |-> True,
               game |-> [g EXCEPT !.board = piece_placed.board,
                                  !.player_turn = 2,
                                  !.player_1_fences = g.player_1_fences - 1]]
         ELSE [ret |-> True,
               game |-> [g EXCEPT !.board = piece_placed.board,
                                  !.player_turn = 1,
                                  !.player_2_fences = g.player_2_fences - 1]]
    ELSE [ret |-> False, game |-> [g EXCEPT !.board = piece_placed.board]]

\* QuoridorGame.place_fence as it would be without the tests of lines 64-67
\* for a player with no fence piece left
QuoridorGame_place_fence_no_pieces_test(g, player, direction, position) ==
    IF g.game_over # 0
    THEN [ret |-> False, game |-> g]
    ELSE IF player # g.player_turn
    THEN [ret |-> False, game |-> g]
    ELSE CHOOSE out \in {AfterBoardFence(g, player, piece_placed) :
                            piece_placed \in {place_fence(g.board, direction, position)}} : TRUE

\* QuoridorGame.place_fence as it would be without the test of lines 59-60
\* for a game already won
QuoridorGame_place_fence_after_win(g, player, direction, position) ==
    IF player # g.player_turn
    THEN [ret |-> False, game |-> g]
    ELSE IF player = 1 /\ g.player_1_fences = 0
    THEN [ret |-> False, game |-> g]
    ELSE IF player = 2 /\ g.player_2_fences = 0
    THEN [ret |-> False, game |-> g]
    ELSE CHOOSE out \in {AfterBoardFence(g, player, piece_placed) :
                            piece_placed \in {place_fence(g.board, direction, position)}} : TRUE

\* QuoridorGame.place_fence; the Board's place_fence is called once
QuoridorGame_place_fence(g, player, direction, position) ==
    IF g.game_over # 0
    THEN [ret |-> False, game |-> g]
    ELSE IF player # g.player_turn
    THEN [ret |-> False, game |-> g]
    ELSE IF player = 1 /\ g.player_1_fences = 0
    THEN [ret |-> False, game |-> g]
    ELSE IF player = 2 /\ g.player_2_fences = 0
    THEN [ret |-> False, game |-> g]
    ELSE CHOOSE out \in {AfterBoardFence(g, player, piece_placed) :
                            piece_placed \in {place_fence(g.board, direction, position)}} : TRUE

\* QuoridorGame.is_winner
is_winner(g, player) == IF g.game_over = player THEN TRUE ELSE FALSE

-----------------------------------------------------------------------------
(* The inputs the calls are made with *)

\* the Board as one value
Board == [player_1 |-> player_1, player_2 |-> player_2,
          has_pawn |-> has_pawn, links |-> links]

Players == {1, 2}

\* the QuoridorGame as one value
Game == [board |-> Board, player_turn |-> player_turn, game_over |-> game_over,
         player_1_fences |-> player_1_fences, player_2_fences |-> player_2_fences]

\* the players the game's methods are probed for: 3 is no player
Callers == {1, 2, 3}

\* how many rows from the top have their side columns among the targets
SideRows == 1

\* the coordinates pawns are asked to move to: the middle column, the
\* columns beside it in the top rows, and two coordinates off the board
Targets ==
    {c \in Coords : c[1] = 4 \/ (c[2] <= SideRows /\ Abs(c[1] - 4) <= 1)}
    \cup {<<4, -1>>, <<9, 0>>}

\* the fences asked for: the three edges of Tile (4, 0), the west edge of
\* Tile (4, 1), a "v" on the board's west edge, an "h" on its north edge, a
\* direction that is neither and a position off the board
FenceInputs ==
    {<<"v", <<4, 0>>>>, <<"v", <<5, 0>>>>, <<"h", <<4, 1>>>>, <<"v", <<4, 1>>>>,
     <<"v", <<0, 0>>>>, <<"h", <<4, 0>>>>, <<"x", <<4, 1>>>>, <<"h", <<4, 9>>>>}

\* the closed link pairs of the board, each named by its "v" or "h" fence
Fences(L) ==
    {<<"v", c>> : c \in {x \in Coords : x[1] # 0 /\ get_link(L, x, "west") = None}}
    \cup {<<"h", c>> : c \in {x \in Coords : x[2] # 0 /\ get_link(L, x, "north") = None}}

-----------------------------------------------------------------------------
(* The state machine of the Board: a fresh Board, as QuoridorGame.__init__ *)
(* builds it, and any sequence of calls made on the Board itself           *)

Init ==
    /\ player_1 = <<4, 0>>
    /\ player_2 = <<4, 8>>
    /\ has_pawn = InitHasPawn
    /\ links = InitLinks
    /\ player_turn = 1
    /\ game_over = 0
    /\ player_1_fences = StartFences
    /\ player_2_fences = StartFences

\* a call of Board.move_pawn
MovePawn(player, new_pos) ==
    \E r \in {move_pawn(Board, player, new_pos)} :
        /\ player_1' = r.board.player_1
        /\ player_2' = r.board.player_2
        /\ has_pawn' = r.board.has_pawn
        /\ links' = r.board.links
        /\ UNCHANGED game_vars

\* a call of Board.place_fence
PlaceFence(direction, position) ==
    \E r \in {place_fence(Board, direction, position)} :
        /\ player_1' = r.board.player_1
        /\ player_2' = r.board.player_2
        /\ has_pawn' = r.board.has_pawn
        /\ links' = r.board.links
        /\ UNCHANGED game_vars

Next ==
    \/ \E player \in Players, new_pos \in Targets : MovePawn(player, new_pos)
    \/ \E f \in FenceInputs : PlaceFence(f[1], f[2])

Spec == Init /\ [][Next]_vars

-----------------------------------------------------------------------------
(* The state machine of the QuoridorGame: a fresh game and any sequence of *)
(* calls of its move_pawn and place_fence                                  *)

\* the game becomes g
Becomes(g) ==
    /\ player_1' = g.board.player_1
    /\ player_2' = g.board.player_2
    /\ has_pawn' = g.board.has_pawn
    /\ links' = g.board.links
    /\ player_turn' = g.player_turn
    /\ game_over' = g.game_over
    /\ player_1_fences' = g.player_1_fences
    /\ player_2_fences' = g.player_2_fences

\* a call of QuoridorGame.move_pawn
GameMovePawn(player, new_pos) ==
    \E r \in {QuoridorGame_move_pawn(Game, player, new_pos)} : Becomes(r.game)

\* a call of QuoridorGame.place_fence
GamePlaceFence(player, direction, position) ==
    \E r \in {QuoridorGame_place_fence(Game, player, direction, position)} : Becomes(r.game)

\* the fences the players ask for: the three edges of Tile (4, 0), a "v" on
\* the board's west edge, a direction that is neither "v" nor "h" and a
\* position off the board
GameFences ==
    {<<"v", <<4, 0>>>>, <<"v", <<5, 0>>>>, <<"h", <<4, 1>>>>,
     <<"v", <<0, 0>>>>, <<"x", <<4, 1>>>>, <<"h", <<4, 9>>>>}

GameNext ==
    \/ \E player \in Players, new_pos \in Targets : GameMovePawn(player, new_pos)
    \/ \E player \in Players, f \in GameFences : GamePlaceFence(player, f[1], f[2])

GameSpec == Init /\ [][GameNext]_vars

-----------------------------------------------------------------------------
(* The QuoridorGame again, played until the fence pieces run out: the      *)
(* pawns step to and fro next to their starting cells, and the fences are  *)
(* asked for one after the other along rows 3, 4 and 5, where they cut no  *)
(* player off                                                              *)

\* how many fences the row holds: one more than the two players' pieces
RowFences == 21

\* the i-th fence of the row: the "v" fences of row 3 from column 1 to
\* column 8, then those of row 4, then those of row 5
FenceRow(i) == <<"v", <<((i - 1) % LastIndex) + 1, 3 + ((i - 1) \div LastIndex)>>>>

\* the fences asked for when n fences stand: the last one placed, again,
\* and the next one of the row
FencesAsked(n) == {FenceRow(i) : i \in {j \in 1..RowFences : j = n \/ j = n + 1}}

FenceTargets == {<<4, 0>>, <<4, 1>>, <<4, 7>>, <<4, 8>>}

FenceNext ==
    \/ \E player \in Players, new_pos \in FenceTargets : GameMovePawn(player, new_pos)
    \/ \E player \in Players, f \in FencesAsked(Cardinality(Fences(links))) :
          GamePlaceFence(player, f[1], f[2])

FenceSpec == Init /\ [][FenceNext]_vars

-----------------------------------------------------------------------------
\* the Board again, with the pawns kept to the middle column and the fences
\* asked for those that pen in the two cells (4, 0) and (4, 1)
PenTargets == {c \in Coords : c[1] = 4}

PenFences ==
    {<<"v", <<4, 0>>>>, <<"v", <<5, 0>>>>, <<"v", <<4, 1>>>>, <<"v", <<5, 1>>>>,
     <<"h", <<4, 2>>>>}

PenNext ==
    \/ \E player \in Players, new_pos \in PenTargets : MovePawn(player, new_pos)
    \/ \E f \in PenFences : PlaceFence(f[1], f[2])

PenSpec == Init /\ [][PenNext]_vars

-----------------------------------------------------------------------------
(* What the claims speak of, stated on the grid and not through the code *)

\* the grid coordinate one step from c in direction d (it may lie off the board)
Neighbour(c, d) ==
    CASE d = "west"  -> <<c[1] - 1, c[2]>>
      [] d = "east"  -> <<c[1] + 1, c[2]>>
      [] d = "north" -> <<c[1], c[2] - 1>>
      [] d = "south" -> <<c[1], c[2] + 1>>

Opposite(d) ==
    CASE d = "west" -> "east" [] d = "east" -> "west"
      [] d = "north" -> "south" [] d = "south" -> "north"

\* the cells a path of zero or more open links of L leads to from the cells
\* S, whose links are all followed already but those of the cells F
RECURSIVE Closure(_, _, _)
Closure(L, S, F) ==
    LET N == ({get_link(L, c, d) : c \in F, d \in Directions} \ {None}) \ S
    IN  IF N = {} THEN S ELSE Closure(L, S \cup N, N)

GoalRow(player) == IF player = 1 THEN 8 ELSE 0

PositionOf(b, player) == IF player = 1 THEN b.player_1 ELSE b.player_2

\* player has a route, ignoring pawns, from its cell to its goal row
HasRoute(b, player) ==
    \E c \in Closure(b.links, {PositionOf(b, player)}, {PositionOf(b, player)}) :
        c[2] = GoalRow(player)

\* the calls each state is probed with: every target up to Reach cells away
\* from a pawn on either axis, off the board included
Reach == 3

MoveProbes(b) ==
    {<<p, <<PositionOf(b, p)[1] + dc, PositionOf(b, p)[2] + dr>>>> :
        p \in Players, dc \in -Reach..Reach, dr \in -Reach..Reach}

\* the fences each state is probed with: each direction, one that is neither
\* "v" nor "h" too, at the positions of Tiles (4, 0), (5, 0), (4, 1), (5, 1),
\* at a west-edge position and at positions off the board
FenceProbes ==
    {"v", "h", "x"}
    \X (((4..5) \X (0..1)) \cup {<<0, 0>>, <<9, 0>>, <<-1, 1>>, <<4, 9>>, <<4, -1>>})

\* the direction of a step of one cell along one axis
DirOf(dc, dr) ==
    CASE dc < 0 /\ dr = 0 -> "west"
      [] dc > 0 /\ dr = 0 -> "east"
      [] dc = 0 /\ dr < 0 -> "north"
      [] dc = 0 /\ dr > 0 -> "south"

Opponent(player) == 3 - player

\* the three shapes of a legal displacement
RegularShape(dc, dr) == (Abs(dc) = 1 /\ dr = 0) \/ (Abs(dr) = 1 /\ dc = 0)
JumpShape(dc, dr) == (Abs(dc) = 2 /\ dr = 0) \/ (Abs(dr) = 2 /\ dc = 0)
DiagonalShape(dc, dr) == Abs(dc) = 1 /\ Abs(dr) = 1

\* the target t is on the board and holds no pawn
FreeTarget(t) == t \in Coords /\ get_has_pawn(has_pawn, t) = 0

\* the opponent of player stands on x, next to cur; cur's link to x is open,
\* x's link straight on is absent and x's link to the target t is open
SideStepAround(player, cur, x, t) ==
    LET on == DirOf(x[1] - cur[1], x[2] - cur[2])
        side == DirOf(t[1] - x[1], t[2] - x[2])
    IN  /\ get_has_pawn(has_pawn, x) = Opponent(player)
        /\ get_link(links, cur, on) # None
        /\ get_link(links, x, on) = None
        /\ get_link(links, x, side) # None

-----------------------------------------------------------------------------
(* C1: in every reachable state both players have a route of open links,   *)
(* pawns ignored, to their goal rows: player 1 to row 8, player 2 to row 0 *)
C1_BothPlayersHaveRoute ==
    HasRoute(Board, 1) /\ HasRoute(Board, 2)

\* player 1 stands on (4, 0) behind two of its three fences, and the third
\* fence is refused for breaking the fair play rule
C1_Witness ==
    /\ player_1 = <<4, 0>>
    /\ Cardinality(Fences(links) \cap {<<"v", <<4, 0>>>>, <<"v", <<5, 0>>>>, <<"h", <<4, 1>>>>}) = 2
    /\ \E f \in FenceInputs : place_fence(Board, f[1], f[2]).ret = BreaksFairPlay
    /\ HasRoute(Board, 1)

(* C2: in every reachable state exactly one cell carries marker 1, at the  *)
(* stored player-1 position, exactly one carries marker 2, at the stored   *)
(* player-2 position, and the two cells differ                             *)
C2_MarkersMatchPositions ==
    /\ {c \in Coords : get_has_pawn(has_pawn, c) = 1} = {player_1}
    /\ {c \in Coords : get_has_pawn(has_pawn, c) = 2} = {player_2}
    /\ player_1 # player_2

\* both pawns have moved off their starting cells
C2_Witness ==
    /\ player_1 # <<4, 0>>
    /\ player_2 # <<4, 8>>
    /\ get_has_pawn(has_pawn, player_1) = 1
    /\ get_has_pawn(has_pawn, player_2) = 2

(* C3: in every reachable state the link from A toward an adjacent B is    *)
(* open iff the link from B toward A is open, and every open link of a     *)
(* cell refers to the cell's true grid neighbour in that direction, so     *)
(* directions that leave the board are never open                          *)
C3_LinksSymmetricAndTrue ==
    \A c \in Coords : \A d \in Directions :
        /\ get_link(links, c, d) # None => get_link(links, c, d) = Neighbour(c, d) /\ Neighbour(c, d) \in Coords
        /\ Neighbour(c, d) \in Coords =>
              (get_link(links, c, d) # None <=> get_link(links, Neighbour(c, d), Opposite(d)) # None)

\* a fence stands, and another was refused and reopened
C3_Witness ==
    /\ Fences(links) # {}
    /\ \E f \in FenceInputs : place_fence(Board, f[1], f[2]).ret = BreaksFairPlay

(* C4: whenever place_fence returns anything other than True, every link,  *)
(* every occupant marker and both stored positions are as before the call: *)
(* a fair-play refusal reopens exactly the link pair it closed             *)
C4_RefusedFenceChangesNothing ==
    \A f \in FenceProbes :
        \A r \in {place_fence(Board, f[1], f[2])} :
            r.ret # True => r.board = Board

\* a fence is refused for the fair play rule, and another plainly
C4_Witness ==
    /\ \E f \in FenceProbes : \E r \in {place_fence(Board, f[1], f[2])} :
          r.ret = BreaksFairPlay /\ r.board = Board
    /\ \E f \in FenceProbes : f \in Fences(links) /\ place_fence(Board, f[1], f[2]).ret = False

\* the boards _fair_play is run on when the fences asked for are those of
\* probes: the tentative boards of lines 285-288 and 296-299, for each fence
\* whose link is still open, and the board as it stands
SearchedBoardsOf(probes) ==
    {Board}
    \cup {TentativeClose(Board, f[2], get_link(Board.links, f[2], "west"), "west", "east") :
             f \in {g \in probes : g[1] = "v" /\ g[2] \in Coords
                                     /\ get_link(Board.links, g[2], "west") # None}}
    \cup {TentativeClose(Board, f[2], get_link(Board.links, f[2], "north"), "north", "south") :
             f \in {g \in probes : g[1] = "h" /\ g[2] \in Coords
                                     /\ get_link(Board.links, g[2], "north") # None}}

SearchedBoards == SearchedBoardsOf(FenceProbes)

(* C5: for every link configuration the search is run in, the tentative    *)
(* one inside a fence placement included, and each player p, _fair_play(p) *)
(* is true exactly when a cell of p's goal row is reachable from p's cell  *)
(* by zero or more open links, pawns ignored; in particular it is true     *)
(* when p's own cell lies in p's goal row, even with no open link          *)
C5_FairPlayIsReachability ==
    \A b \in SearchedBoards : \A p \in Players :
        _fair_play(b, p) <=> HasRoute(b, p)

\* apart from a player walled in on its own goal row, the search and the
\* routes agree on every board searched
C5_AgreesUnlessWalledInOnGoalRow ==
    \A b \in SearchedBoards : \A p \in Players :
        (_fair_play(b, p) <=> HasRoute(b, p))
        \/ /\ PositionOf(b, p)[2] = GoalRow(p)
           /\ get_valid_directions(b.links, PositionOf(b, p)) = << >>
           /\ ~_fair_play(b, p)

(* C6: for a target on the board, unoccupied and exactly two cells from    *)
(* the mover along one axis, move_pawn succeeds iff the link from the      *)
(* mover's cell to the middle cell is open, the middle cell holds the      *)
(* opponent's pawn and the link from the middle cell onward is open; with  *)
(* an adjacent opponent and a fence behind it the jump is rejected         *)
C6_JumpRule ==
    \A m \in MoveProbes(Board) :
        LET p == m[1]
            t == m[2]
            cur == PositionOf(Board, p)
            dc == t[1] - cur[1]
            dr == t[2] - cur[2]
            d == DirOf(dc, dr)
            mid == Neighbour(cur, d)
        IN  FreeTarget(t) /\ JumpShape(dc, dr) =>
                (move_pawn(Board, p, t).ret = True
                    <=> /\ get_link(links, cur, d) # None
                        /\ get_has_pawn(has_pawn, mid) = Opponent(p)
                        /\ get_link(links, mid, d) # None)

\* one pawn jumps the other, and the other's jump back is stopped by nothing
\* but the fence behind the pawn in its way
C6_Witness ==
    /\ \E m \in MoveProbes(Board) :
          /\ FreeTarget(m[2])
          /\ JumpShape(m[2][1] - PositionOf(Board, m[1])[1], m[2][2] - PositionOf(Board, m[1])[2])
          /\ move_pawn(Board, m[1], m[2]).ret = True
    /\ \E m \in MoveProbes(Board) :
          LET cur == PositionOf(Board, m[1])
              d == DirOf(m[2][1] - cur[1], m[2][2] - cur[2])
          IN  /\ FreeTarget(m[2])
              /\ JumpShape(m[2][1] - cur[1], m[2][2] - cur[2])
              /\ get_link(links, cur, d) # None
              /\ get_has_pawn(has_pawn, Neighbour(cur, d)) = Opponent(m[1])
              /\ get_link(links, Neighbour(cur, d), d) = None
              /\ move_pawn(Board, m[1], m[2]).ret = False

(* C7: for a target on the board, unoccupied and one cell away diagonally, *)
(* move_pawn succeeds iff the opponent stands on one of the two cells next *)
(* to both mover and target, the link from the mover to that cell is open, *)
(* the link from that cell straight on is absent and the link from that    *)
(* cell to the target is open. So no side-step around an opponent succeeds *)
(* where the jump over it succeeds, and with a fence right behind an       *)
(* adjacent opponent both side-steps whose side links are open succeed     *)
C7_SideStepRule ==
    /\ \A m \in MoveProbes(Board) :
          LET p == m[1]
              t == m[2]
              cur == PositionOf(Board, p)
              dc == t[1] - cur[1]
              dr == t[2] - cur[2]
          IN  FreeTarget(t) /\ DiagonalShape(dc, dr) =>
                /\ move_pawn(Board, p, t).ret = True
                      <=> \E x \in {<<t[1], cur[2]>>, <<cur[1], t[2]>>} :
                              SideStepAround(p, cur, x, t)
                /\ \A x \in {<<t[1], cur[2]>>, <<cur[1], t[2]>>} :
                      get_has_pawn(has_pawn, x) = Opponent(p) /\ move_pawn(Board, p, t).ret = True =>
                          move_pawn(Board, p, <<2 * x[1] - cur[1], 2 * x[2] - cur[2]>>).ret = False
    /\ \A p \in Players : \A on \in Directions :
          LET cur == PositionOf(Board, p)
              x == Neighbour(cur, on)
          IN  x \in Coords /\ get_has_pawn(has_pawn, x) = Opponent(p)
              /\ get_link(links, cur, on) # None /\ get_link(links, x, on) = None =>
                  \A side \in Directions \ {on, Opposite(on)} :
                      get_link(links, x, side) # None =>
                          move_pawn(Board, p, Neighbour(x, side)).ret = True

\* a fence stands right behind an adjacent opponent: one side-step round it
\* succeeds and the other is stopped by a fence on that side
C7_Witness ==
    \E p \in Players : \E on \in Directions :
        LET cur == PositionOf(Board, p)
            x == Neighbour(cur, on)
        IN  /\ x \in Coords /\ get_has_pawn(has_pawn, x) = Opponent(p)
            /\ get_link(links, cur, on) # None /\ get_link(links, x, on) = None
            /\ Neighbour(x, on) \in Coords
            /\ \E side \in Directions \ {on, Opposite(on)} :
                  /\ move_pawn(Board, p, Neighbour(x, side)).ret = True
                  /\ get_link(links, x, Opposite(side)) = None
                  /\ Neighbour(x, Opposite(side)) \in Coords
                  /\ move_pawn(Board, p, Neighbour(x, Opposite(side))).ret = False

(* C8: for a target on the board, unoccupied and exactly one cell from the *)
(* mover along one axis, move_pawn succeeds iff the link between the       *)
(* mover's cell and the target is open: no one-step move crosses a closed  *)
(* link                                                                    *)
C8_RegularRule ==
    \A m \in MoveProbes(Board) :
        LET p == m[1]
            t == m[2]
            cur == PositionOf(Board, p)
            dc == t[1] - cur[1]
            dr == t[2] - cur[2]
        IN  FreeTarget(t) /\ RegularShape(dc, dr) =>
                (move_pawn(Board, p, t).ret = True <=> get_link(links, cur, DirOf(dc, dr)) # None)

\* a pawn has a one-step move open to it and another shut by a fence
C8_Witness ==
    \E p \in Players :
        LET cur == PositionOf(Board, p)
        IN  /\ \E d \in Directions :
                  /\ FreeTarget(Neighbour(cur, d))
                  /\ get_link(links, cur, d) = None
                  /\ move_pawn(Board, p, Neighbour(cur, d)).ret = False
            /\ \E d \in Directions :
                  /\ FreeTarget(Neighbour(cur, d))
                  /\ move_pawn(Board, p, Neighbour(cur, d)).ret = True

(* C9: move_pawn returns False and leaves every occupant marker, both      *)
(* stored positions and every link unchanged whenever the target is off    *)
(* the board, the target cell is occupied (the mover's own cell included)  *)
(* or the displacement has none of the three legal shapes                  *)
C9_RefusedMoveChangesNothing ==
    \A m \in MoveProbes(Board) :
        LET p == m[1]
            t == m[2]
            cur == PositionOf(Board, p)
            dc == t[1] - cur[1]
            dr == t[2] - cur[2]
            refused == \/ t \notin Coords
                       \/ (t \in Coords /\ get_has_pawn(has_pawn, t) # 0)
                       \/ ~(RegularShape(dc, dr) \/ JumpShape(dc, dr) \/ DiagonalShape(dc, dr))
        IN  \A r \in {move_pawn(Board, p, t)} :
                refused => (r.ret = False /\ r.board = Board)

\* the pawns stand next to each other at the board's edge, with a fence up:
\* targets off the board, on the opponent and of no shape are all at hand
C9_Witness ==
    /\ \E d \in Directions : Neighbour(player_1, d) = player_2
    /\ player_1[2] = 0
    /\ Fences(links) # {}
    /\ move_pawn(Board, 1, player_2).ret = False
    /\ move_pawn(Board, 1, player_1).ret = False
    /\ move_pawn(Board, 1, <<player_1[1], -1>>).ret = False

(* C10: place_fence returns plain False exactly when the direction is      *)
(* neither "v" nor "h", the position is off the board, or the link to be   *)
(* closed is already absent (the west link for "v", the north link for     *)
(* "h": the board's edge or a fence). So no fence is placed twice on one   *)
(* edge                                                                    *)
C10_PlainRefusal ==
    \A f \in FenceProbes :
        \A r \in {place_fence(Board, f[1], f[2])} :
        LET absent == /\ f[2] \in Coords
                      /\ \/ (f[1] = "v" /\ get_link(links, f[2], "west") = None)
                         \/ (f[1] = "h" /\ get_link(links, f[2], "north") = None)
        IN  /\ (r.ret = False) <=> (f[1] \notin {"v", "h"} \/ f[2] \notin Coords \/ absent)
            /\ (f[1] = "v" /\ f[2] \in Coords) =>
                  ((get_link(links, f[2], "west") = None)
                      <=> (f[2][1] = 0 \/ f \in Fences(links)))
            /\ (f[1] = "h" /\ f[2] \in Coords) =>
                  ((get_link(links, f[2], "north") = None)
                      <=> (f[2][2] = 0 \/ f \in Fences(links)))
            /\ (r.ret = True) =>
                  /\ f \in Fences(r.board.links)
                  /\ place_fence(r.board, f[1], f[2]).ret = False

\* a fence stands and is asked for again, another fence can still be placed
\* and a third would break the fair play rule
C10_Witness ==
    /\ \E f \in FenceProbes : f \in Fences(links) /\ place_fence(Board, f[1], f[2]).ret = False
    /\ \E f \in FenceProbes : place_fence(Board, f[1], f[2]).ret = True
    /\ \E f \in FenceProbes : place_fence(Board, f[1], f[2]).ret = BreaksFairPlay

\* the successful moves of player 1 into row 8 among the probes, each with
\* the board it leaves
GoalMovesOfOne ==
    {r.board : r \in {x \in {move_pawn(Board, m[1], m[2]) :
                                m \in {n \in MoveProbes(Board) : n[1] = 1 /\ n[2][2] = 8}} :
                        x.ret = True}}

(* C11, as stated: from any state the Board's operations reach, after a    *)
(* successful move_pawn(1, t) with t in row 8, player_in_goal(1) is true   *)
(* and player_in_goal(2) is false                                          *)
C11_GoalOfOneNotOfTwo ==
    \A after \in GoalMovesOfOne :
        player_in_goal(after, 1) /\ ~player_in_goal(after, 2)

(* C11, amended: after a successful move_pawn(1, t) with t in row 8,       *)
(* player_in_goal(1) is true, and player_in_goal(2) is true exactly when   *)
(* the cell carrying marker 2 lies in row 0, where the Board's operations  *)
(* let player 2 stand                                                      *)
C11_GoalOfOneAndTwoOnlyOnRowZero ==
    \A after \in GoalMovesOfOne :
        /\ player_in_goal(after, 1)
        /\ player_in_goal(after, 2)
              <=> \E c \in Coords : c[2] = 0 /\ get_has_pawn(after.has_pawn, c) = 2

\* player 1 can step or jump into row 8 while player 2 stands in row 0, and
\* so both are in their goal rows afterwards
C11_Witness ==
    /\ player_2[2] = 0
    /\ \E after \in GoalMovesOfOne :
          /\ after.player_1[2] = 8
          /\ player_in_goal(after, 1)
          /\ player_in_goal(after, 2)

\* the links of L that are absent between two cells of the board
AbsentLinks(L) ==
    {<<c, d>> \in Coords \X Directions :
        Neighbour(c, d) \in Coords /\ get_link(L, c, d) = None}

(* C12: fences are permanent. A link between two cells that is absent in   *)
(* a state (both directions of a placed fence) is absent after every       *)
(* move_pawn and place_fence call made from it, the calls taken as steps   *)
(* and the calls each state is probed with; a refused placement reopens    *)
(* nothing but the link pair it closed itself                              *)
C12_FencesArePermanent ==
    /\ [](/\ \A m \in MoveProbes(Board) :
                \A r \in {move_pawn(Board, m[1], m[2])} :
                    r.board.links # links =>
                        \A a \in AbsentLinks(links) : get_link(r.board.links, a[1], a[2]) = None
          /\ \A f \in FenceProbes :
                \A r \in {place_fence(Board, f[1], f[2])} :
                    /\ r.board.links # links =>
                          \A a \in AbsentLinks(links) : get_link(r.board.links, a[1], a[2]) = None
                    /\ r.ret = BreaksFairPlay => AbsentLinks(r.board.links) = AbsentLinks(links))
    /\ [][links' # links =>
              \A a \in AbsentLinks(links) : get_link(links', a[1], a[2]) = None]_vars

\* three fences stand on the edges of Tile (4, 1) and of its neighbours, a
\* fourth on the north edge of Tile (4, 1) is refused for the fair play rule
\* and rolled back, and both pawns have moved since the board was built
C12_Witness ==
    /\ Cardinality(AbsentLinks(links)) = 6
    /\ <<"v", <<4, 1>>>> \in Fences(links)
    /\ place_fence(Board, "h", <<4, 1>>).ret = BreaksFairPlay
    /\ player_2 # <<4, 8>>

(* C13: a successful move_pawn(p, t) changes three things only: the cell p *)
(* stood on becomes empty, the cell t carries p's marker and p's stored    *)
(* position is t. Every link, the other player's stored position and the   *)
(* marker of every other cell are as before                                *)
C13_MoveChangesThreeThings ==
    \A m \in MoveProbes(Board) :
        \A r \in {move_pawn(Board, m[1], m[2])} :
            r.ret = True =>
                /\ get_has_pawn(r.board.has_pawn, PositionOf(Board, m[1])) = 0
                /\ get_has_pawn(r.board.has_pawn, m[2]) = m[1]
                /\ PositionOf(r.board, m[1]) = m[2]
                /\ r.board.links = links
                /\ PositionOf(r.board, Opponent(m[1])) = PositionOf(Board, Opponent(m[1]))
                /\ \A c \in Coords \ {PositionOf(Board, m[1]), m[2]} :
                      get_has_pawn(r.board.has_pawn, c) = get_has_pawn(has_pawn, c)

\* with fences on the board, a pawn has a one-step move and a jump or a
\* side-step that succeed
C13_Witness ==
    /\ Fences(links) # {}
    /\ \E p \in Players :
          /\ \E m \in MoveProbes(Board) :
                /\ m[1] = p
                /\ RegularShape(m[2][1] - PositionOf(Board, p)[1], m[2][2] - PositionOf(Board, p)[2])
                /\ move_pawn(Board, p, m[2]).ret = True
          /\ \E m \in MoveProbes(Board) :
                /\ m[1] = p
                /\ ~RegularShape(m[2][1] - PositionOf(Board, p)[1], m[2][2] - PositionOf(Board, p)[2])
                /\ move_pawn(Board, p, m[2]).ret = True

\* the side of the position's cell a fence of the direction closes
SideOf(direction) == IF direction = "v" THEN "west" ELSE "north"

\* the board b with the link pair of fence f absent
WithFence(b, f) ==
    LET pair == {<<f[2], SideOf(f[1])>>,
                 <<Neighbour(f[2], SideOf(f[1])), Opposite(SideOf(f[1]))>>}
    IN  [b EXCEPT !.links =
            [row \in 0..LastIndex |-> [col \in 0..LastIndex |-> [d \in Directions |->
                IF <<<<col, row>>, d>> \in pair THEN None ELSE b.links[row][col][d]]]]]

(* C17: when place_fence returns True exactly one link pair went from open *)
(* to absent: the west link of the position's cell and the east link of    *)
(* its west neighbour for "v", the north link of the position's cell and   *)
(* the south link of its north neighbour for "h". Every other link, every  *)
(* occupant marker and both pawn positions are unchanged                   *)
C17_FenceClosesOnePair ==
    \A f \in FenceProbes :
        \A r \in {place_fence(Board, f[1], f[2])} :
            r.ret = True =>
                LET side == SideOf(f[1])
                    pair == {<<f[2], side>>, <<Neighbour(f[2], side), Opposite(side)>>}
                IN  /\ f[1] \in {"v", "h"}
                    /\ pair \subseteq Coords \X Directions
                    /\ \A a \in pair :
                          /\ get_link(links, a[1], a[2]) = Neighbour(a[1], a[2])
                          /\ get_link(r.board.links, a[1], a[2]) = None
                    /\ r.board.links = WithFence(Board, f).links
                    /\ r.board.has_pawn = has_pawn
                    /\ r.board.player_1 = player_1
                    /\ r.board.player_2 = player_2

\* with a fence standing and a pawn moved, a "v" and an "h" fence can both
\* be placed
C17_Witness ==
    /\ Fences(links) # {}
    /\ player_1 # <<4, 0>>
    /\ \E f \in FenceProbes : f[1] = "v" /\ place_fence(Board, f[1], f[2]).ret = True
    /\ \E f \in FenceProbes : f[1] = "h" /\ place_fence(Board, f[1], f[2]).ret = True

(* C18: every run of the fair-play search ends, within as many iterations  *)
(* as the board has cells, and no cell is examined (taken from the front   *)
(* of the frontier) twice in one run, the player's starting cell included; *)
(* the run answers true exactly when the last cell examined lies in the    *)
(* goal row                                                                *)
C18_SearchEndsEachCellOnce ==
    \A b \in SearchedBoardsOf(FenceProbes \cup PenFences) : \A p \in Players :
        \A examined \in {_fair_play_examined(b, p)} :
            /\ Len(examined) <= TileCount
            /\ Cardinality({examined[i] : i \in 1..Len(examined)}) = Len(examined)
            /\ \A i \in 1..Len(examined) : examined[i] \in Coords
            /\ _fair_play(b, p)
                  <=> (Len(examined) > 0 /\ examined[Len(examined)][2] = GoalRow(p))

\* a search that fails after examining the player's starting cell, which it
\* came back to through a neighbour, and a search that succeeds after
\* examining more cells than a row has
C18_Witness ==
    /\ \E b \in SearchedBoardsOf(PenFences) : \E p \in Players :
          \A examined \in {_fair_play_examined(b, p)} :
              /\ ~_fair_play(b, p)
              /\ \E i \in 1..Len(examined) : examined[i] = PositionOf(b, p)
    /\ \E p \in Players :
          _fair_play(Board, p) /\ Len(_fair_play_examined(Board, p)) > LastIndex + 1

-----------------------------------------------------------------------------
(* What the claims about the QuoridorGame speak of *)

\* the fences each state of the game is probed with: those the players ask
\* for, the west edge of Tile (4, 1) and a position off the board to the east
GameFenceProbes == GameFences \cup {<<"v", <<4, 1>>>>, <<"h", <<9, 1>>>>}

\* the fence pieces player has left
FencesLeft(player) == IF player = 1 THEN player_1_fences ELSE player_2_fences

\* the call is one the game passes on to its Board: the game is in progress,
\* it is player's turn and player has a fence piece left
ReachesBoard(player) ==
    game_over = 0 /\ player = player_turn /\ FencesLeft(player) > 0

\* fence f names an open link of the board, and with that link absent one
\* of the players has no route to its goal row
FairPlayIsTheCause(f) ==
    /\ f[1] \in {"v", "h"}
    /\ f[2] \in Coords
    /\ get_link(links, f[2], SideOf(f[1])) # None
    /\ \E p \in Players : ~HasRoute(WithFence(Board, f), p)

\* fence f is one the board refuses plainly: its direction is neither "v"
\* nor "h", its position is off the board or its link is absent already
NoSuchOpenLink(f) ==
    \/ f[1] \notin {"v", "h"}
    \/ f[2] \notin Coords
    \/ get_link(links, f[2], SideOf(f[1])) = None

(* C14: when QuoridorGame.place_fence passes a placement on to the board   *)
(* (the game is in progress, it is the caller's turn and the caller has a  *)
(* fence left), it returns "breaks the fair play rule" exactly when the    *)
(* fence would leave a player without a route, and False exactly when the  *)
(* fence names no open link of the board; in both cases the turn, both     *)
(* fence counts, the win flag and the board are as before, so the same     *)
(* player is still to move                                                 *)
C14_RefusalsToldApart ==
    \A p \in Callers : \A f \in GameFenceProbes :
        ReachesBoard(p) =>
            \A r \in {QuoridorGame_place_fence(Game, p, f[1], f[2])} :
                /\ r.ret = False <=> NoSuchOpenLink(f)
                /\ r.ret = BreaksFairPlay <=> FairPlayIsTheCause(f)
                /\ r.ret # True => (r.game = Game /\ r.game.player_turn = p)

\* it is player 2's turn, and of the fences it may ask for one breaks the
\* fair play rule, one stands already and one can be placed
C14_Witness ==
    /\ ReachesBoard(2)
    /\ \E f \in GameFenceProbes :
          QuoridorGame_place_fence(Game, 2, f[1], f[2]).ret = BreaksFairPlay
    /\ \E f \in GameFenceProbes :
          f \in Fences(links) /\ QuoridorGame_place_fence(Game, 2, f[1], f[2]).ret = False
    /\ \E f \in GameFenceProbes :
          QuoridorGame_place_fence(Game, 2, f[1], f[2]).ret = True

\* the targets each state of the game is probed with: those around each pawn
GameMoveTargets == {m[2] : m \in MoveProbes(Board)}

\* what strict alternation asks of one call, made for p, that returned r
Alternates(p, r) ==
    /\ p # player_turn => (r.ret = False /\ r.game = Game)
    /\ r.ret = True => (p = player_turn /\ r.game.player_turn = Opponent(p))
    /\ r.ret # True => r.game.player_turn = player_turn
    /\ r.game.player_turn \in Players

(* C15: strict alternation. Player 1 moves first; a move_pawn or            *)
(* place_fence call for a player who is not the player to move returns     *)
(* False and changes nothing; every call that returns True was made for    *)
(* the player to move and passes the turn to the other player; every call  *)
(* that does not return True leaves the turn where it was                  *)
C15_StrictAlternation ==
    /\ player_turn = 1
    /\ [](\A p \in Callers :
            /\ \A t \in GameMoveTargets :
                  Alternates(p, QuoridorGame_move_pawn(Game, p, t))
            /\ \A f \in GameFenceProbes :
                  \A r \in {QuoridorGame_place_fence(Game, p, f[1], f[2])} : Alternates(p, r))

\* it is player 2's turn after a fence of player 1 and moves of both; player
\* 2's moves and fences succeed and player 1's are refused
C15_Witness ==
    /\ player_turn = 2
    /\ game_over = 0
    /\ player_1_fences < StartFences
    /\ player_1 # <<4, 0>>
    /\ player_2 # <<4, 8>>
    /\ \E t \in GameMoveTargets :
          /\ QuoridorGame_move_pawn(Game, 2, t).ret = True
          /\ move_pawn(Board, 1, t).ret = True
          /\ QuoridorGame_move_pawn(Game, 1, t).ret = False
    /\ \E f \in GameFenceProbes :
          /\ QuoridorGame_place_fence(Game, 2, f[1], f[2]).ret = True
          /\ QuoridorGame_place_fence(Game, 1, f[1], f[2]).ret = False

\* the call that returned r was refused and left the game as it was, the
\* answers of is_winner included
Frozen(r) ==
    /\ r.ret = False
    /\ r.game = Game
    /\ \A q \in Callers : is_winner(r.game, q) = is_winner(Game, q)

(* C16: once a player has won (game_over names the player, whose pawn a    *)
(* successful move_pawn put in its goal row), every move_pawn and          *)
(* place_fence call by either player returns False and changes nothing:    *)
(* board, turn, fence counts and winner stay as they are in every later    *)
(* state, and is_winner keeps its answers                                  *)
C16_FrozenOnceWon ==
    /\ [](game_over # 0 =>
            /\ game_over \in Players
            /\ player_in_goal(Board, game_over)
            /\ is_winner(Game, game_over) /\ ~is_winner(Game, Opponent(game_over))
            /\ \A p \in Callers :
                  /\ \A t \in GameMoveTargets : Frozen(QuoridorGame_move_pawn(Game, p, t))
                  /\ \A f \in GameFenceProbes :
                        Frozen(QuoridorGame_place_fence(Game, p, f[1], f[2])))
    /\ [][game_over # 0 => vars' = vars]_vars

\* player 1 has won; player 2, whose turn it is and who has fences left, has
\* a move and a fence the board would take, and the game refuses both
C16_Witness ==
    /\ game_over = 1
    /\ player_turn = 2
    /\ player_2_fences > 0
    /\ \E t \in GameMoveTargets :
          move_pawn(Board, 2, t).ret = True /\ QuoridorGame_move_pawn(Game, 2, t).ret = False
    /\ \E f \in GameFenceProbes :
          /\ place_fence(Board, f[1], f[2]).ret = True
          /\ QuoridorGame_place_fence(Game, 2, f[1], f[2]).ret = False

\* the targets one or two cells from c along an axis or one cell away
\* diagonally: the only ones the three shapes of a move allow
ShapedTargets(c) ==
    {<<c[1] + dc, c[2] + dr>> : dc \in -2..2, dr \in -2..2} \ {c}

(* C19: no stuck position. In every reachable state of the game in which   *)
(* the game is not over, the player to move has a target for which         *)
(* move_pawn returns True, whatever fences stand and however many fence    *)
(* pieces the player has left                                              *)
C19_MoverHasAMove ==
    game_over = 0 =>
        \E t \in ShapedTargets(PositionOf(Board, player_turn)) :
            QuoridorGame_move_pawn(Game, player_turn, t).ret = True

\* the player to move stands between two fences with the opponent on the
\* only cell its open link leads to: no one-step move succeeds, and a jump
\* or a side-step does
C19_Witness ==
    /\ game_over = 0
    /\ Fences(links) # {}
    /\ \A t \in ShapedTargets(PositionOf(Board, player_turn)) :
          RegularShape(t[1] - PositionOf(Board, player_turn)[1],
                       t[2] - PositionOf(Board, player_turn)[2])
              => QuoridorGame_move_pawn(Game, player_turn, t).ret = False
    /\ \E t \in ShapedTargets(PositionOf(Board, player_turn)) :
          QuoridorGame_move_pawn(Game, player_turn, t).ret = True

\* what the fence accounting asks of one call: r is what it returned, for p,
\* and placed tells whether it was a place_fence call that returned True
Accounted(p, r, placed) ==
    /\ r.game.player_1_fences = player_1_fences - (IF placed /\ p = 1 THEN 1 ELSE 0)
    /\ r.game.player_2_fences = player_2_fences - (IF placed /\ p = 2 THEN 1 ELSE 0)
    /\ placed => p = player_turn

(* C20: fence accounting. In every reachable state of the game each        *)
(* player's fence count is between 0 and 10 and the closed interior link   *)
(* pairs of the board number (10 - player 1's count) + (10 - player 2's    *)
(* count); a count drops, by exactly one, only on a place_fence call by    *)
(* that player that returns True; a player with count 0 gets False from    *)
(* place_fence with nothing changed                                        *)
C20_FenceAccounting ==
    /\ player_1_fences \in 0..StartFences
    /\ player_2_fences \in 0..StartFences
    /\ Cardinality(Fences(links))
          = (StartFences - player_1_fences) + (StartFences - player_2_fences)
    /\ \A p \in Callers :
          /\ \A t \in ShapedTargets(player_1) \cup ShapedTargets(player_2) :
                Accounted(p, QuoridorGame_move_pawn(Game, p, t), FALSE)
          /\ \A f \in GameFenceProbes \cup FencesAsked(Cardinality(Fences(links))) :
                \A r \in {QuoridorGame_place_fence(Game, p, f[1], f[2])} :
                    /\ Accounted(p, r, r.ret = True)
                    /\ (p \in Players /\ FencesLeft(p) = 0) => (r.ret = False /\ r.game = Game)

\* player 1, whose turn it is, has no fence piece left and player 2 has
\* some: a fence the board would take is refused to player 1
C20_Witness ==
    /\ game_over = 0
    /\ player_turn = 1
    /\ player_1_fences = 0
    /\ player_2_fences > 0
    /\ \E f \in FencesAsked(Cardinality(Fences(links))) :
          /\ place_fence(Board, f[1], f[2]).ret = True
          /\ QuoridorGame_place_fence(Game, 1, f[1], f[2]).ret = False

\* the cell carrying player's marker lies in player's goal row: row 8 for
\* player 1, row 0 for player 2
StandsInGoalRow(player) ==
    \E c \in Coords : c[2] = GoalRow(player) /\ get_has_pawn(has_pawn, c) = player

(* C21: winner consistency. In every reachable state of the game           *)
(* is_winner(p) is true iff player p's pawn stands in p's goal row (row 8  *)
(* for player 1, row 0 for player 2); is_winner(1) and is_winner(2) are    *)
(* never both true, and no pawn stands in its own goal row while the game  *)
(* is in progress                                                          *)
C21_WinnerStandsInGoalRow ==
    /\ \A p \in Players : is_winner(Game, p) <=> StandsInGoalRow(p)
    /\ ~(is_winner(Game, 1) /\ is_winner(Game, 2))
    /\ game_over = 0 => \A p \in Players : ~StandsInGoalRow(p)

\* player 2 has won: it stands in row 0 with player 1 short of row 8, and
\* is_winner answers true for player 2 only
C21_Witness ==
    /\ is_winner(Game, 2)
    /\ ~is_winner(Game, 1)
    /\ player_2[2] = 0
    /\ player_1[2] # 8
    /\ player_1 # <<4, 0>>

====
